---- MODULE Spec2Model ----
(***************************************************************************)
(* The period-based compounding projection engine of Heisaa/finances:      *)
(* calculateGrowth (src/unnamed/part_001, lines 438-543) and its adapter   *)
(* calculateGrowthLegacy (lines 545-576).                                  *)
(*                                                                         *)
(* Numbers.  The engine computes in IEEE doubles and never rounds.  The    *)
(* model computes in exact integers and exact quotients, and draws the     *)
(* inputs from values on which every operation of the engine is exact:     *)
(*   - ages are counted in twelfths of a year (one unit = one month), so   *)
(*     the fractional age startAge + (month - 1) / 12 is an integer;       *)
(*   - annual returns are multiples of 1200 %, so rate / 100 / 12 is an    *)
(*     integer monthly rate;                                               *)
(*   - 1 + inflationRate / 100 is a perfect twelfth power, so its twelfth  *)
(*     root is an integer;                                                 *)
(*   - the government borrowing rate is a multiple of 1000 %, so           *)
(*     rate / 100 * 0.30 is an integer;                                    *)
(*   - the two quotients of a snapshot (realBalance, withdrawalRate) are   *)
(*     kept as exact fractions.                                            *)
(***************************************************************************)
EXTENDS Integers, Sequences, FiniteSets, TLC

(***************************************************************************)
(* Bounds of the model.                                                    *)
(***************************************************************************)
MaxMonths == 24     \* longest horizon, in months after age 0
MaxPeriods == 2     \* longest periods list

(***************************************************************************)
(* Program constants.                                                      *)
(***************************************************************************)
MonthsPerYear == 12       \* totalYears * 12, (month - 1) / 12, month % 12
PercentBase == 100        \* rate / 100
IskShareNum == 30         \* 0.30 = 30 / 100
IskShareDen == 100

(***************************************************************************)
(* Exact arithmetic helpers.                                               *)
(***************************************************************************)
RECURSIVE Pow(_, _)
\* Math.pow(b, e) for a natural exponent e
Pow(b, e) == IF e = 0 THEN 1 ELSE b * Pow(b, e - 1)

RECURSIVE RootFrom(_, _, _)
RootFrom(x, n, r) == IF Pow(r, n) >= x THEN r ELSE RootFrom(x, n, r + 1)

\* Math.pow(x, 1 / n) for x a perfect n-th power, x >= 0
Root(x, n) == RootFrom(x, n, 0)

Abs(x) == IF x < 0 THEN 0 - x ELSE x

RECURSIVE GCD(_, _)
GCD(a, b) == IF b = 0 THEN Abs(a) ELSE GCD(b, a % Abs(b))

\* the quotient n / d (d # 0) as a fraction in lowest terms, den > 0
Quot(n, d) ==
    LET g == GCD(n, d)
        s == IF d < 0 THEN 0 - 1 ELSE 1
    IN  [num |-> s * (n \div g), den |-> s * (d \div g)]

\* q < n, q = n for a fraction q and an integer n
QuotLtInt(q, n) == (q.num \div q.den) < n
QuotEqInt(q, n) == q.den = 1 /\ q.num = n

\* (a / b) * 100, kept as its three operands: the value is num / den * scale
Ratio(a, b, k) == [num |-> a, den |-> b, scale |-> k]
ZeroRatio == [num |-> 0, den |-> 1, scale |-> 1]

(***************************************************************************)
(* Inputs of a call.                                                       *)
(***************************************************************************)
None == <<>>
Some(v) == <<v>>

Range(seq) == {seq[i] : i \in DOMAIN seq}

\* Period: annualReturn is optional (None when absent)
PeriodStartAges == {0, 12}
PeriodEndAges == {12, 24}
\* what a period does: idle, saving at the global return, spending under a
\* return override of 0
PeriodProfiles ==
    { [monthlyContribution |-> 0, monthlySpending |-> 0, annualReturn |-> None],
      [monthlyContribution |-> 1, monthlySpending |-> 0, annualReturn |-> None],
      [monthlyContribution |-> 0, monthlySpending |-> 1, annualReturn |-> Some(0)] }
Periods ==
    { [startAge |-> s, endAge |-> e,
       monthlyContribution |-> f.monthlyContribution,
       monthlySpending |-> f.monthlySpending,
       annualReturn |-> f.annualReturn] :
      s \in PeriodStartAges, e \in PeriodEndAges, f \in PeriodProfiles }

RECURSIVE SeqsUpTo(_, _)
SeqsUpTo(S, n) ==
    IF n = 0 THEN {<<>>}
    ELSE LET shorter == SeqsUpTo(S, n - 1)
         IN  shorter \cup {Append(s, x) : s \in shorter, x \in S}

PeriodLists == SeqsUpTo(Periods, MaxPeriods)
InitialAmounts == {0 - 1, 0, 1}
AnnualReturns == {0, 1200}
\* endAge is always supplied (its default of 100 years is not exercised);
\* inflationRate 0 is also what an absent inflationRate defaults to
EndAges == {0, MaxMonths}
InflationRates == {0, 409500}
\* iskTax?: { enabled, governmentBorrowingRate }
IskTaxArgs ==
    {None} \cup {Some([enabled |-> e, governmentBorrowingRate |-> 1000]) : e \in BOOLEAN}

VARIABLES
    initialAmount, periods, annualReturn, endAge, inflationRate, iskTax,
    pc, sortedPeriods, startAge, months, monthlyInflationFactor,
    balance, inflationMultiplier, cumulativeTaxPaid, totalContributions,
    yearlyBalances, month,
    calls, previous, legacy, editorPeriods, orig

args == <<initialAmount, periods, annualReturn, endAge, inflationRate, iskTax>>
locals ==
    <<sortedPeriods, startAge, months, monthlyInflationFactor, balance,
      inflationMultiplier, cumulativeTaxPaid, totalContributions, yearlyBalances, month>>
\* the caller's side: the number of the call in progress, what the call
\* before it returned, and the arguments of a calculateGrowthLegacy call
caller == <<calls, previous, legacy, editorPeriods, orig>>
vars == <<args, pc, locals, caller>>

\* the original engine (src/src/calculator.ts) when it is not being run
OrigIdle ==
    [pc |-> "idle", sortedPeriods |-> <<>>, startAge |-> 0, months |-> 0, balance |-> 0,
     totalContributions |-> 0, yearlyBalances |-> <<>>, month |-> 0]

(***************************************************************************)
(* calculateGrowth: the expressions of its body, one operator each.        *)
(***************************************************************************)
RECURSIVE InsertByEndAge(_, _)
\* variant: the comparator reads endAge
InsertByEndAge(sorted, p) ==
    IF sorted = <<>> THEN <<p>>
    ELSE IF sorted[Len(sorted)].endAge <= p.endAge THEN Append(sorted, p)
    ELSE Append(InsertByEndAge(SubSeq(sorted, 1, Len(sorted) - 1), p),
                sorted[Len(sorted)])

RECURSIVE InsertBeforeEqual(_, _)
\* variant: an unstable sort, which places p before the elements of equal startAge
InsertBeforeEqual(sorted, p) ==
    IF sorted = <<>> THEN <<p>>
    ELSE IF sorted[Len(sorted)].startAge < p.startAge THEN Append(sorted, p)
    ELSE Append(InsertBeforeEqual(SubSeq(sorted, 1, Len(sorted) - 1), p),
                sorted[Len(sorted)])

RECURSIVE InsertByStartAge(_, _)
\* p placed after every element whose startAge is <= p.startAge
InsertByStartAge(sorted, p) ==
    IF sorted = <<>> THEN <<p>>
    ELSE IF sorted[Len(sorted)].startAge <= p.startAge THEN Append(sorted, p)
    ELSE Append(InsertByStartAge(SubSeq(sorted, 1, Len(sorted) - 1), p),
                sorted[Len(sorted)])

\* variant: the sort is skipped and the caller's order is scanned
SortSkipped(ps) == ps

RECURSIVE SortByStartAge(_)
\* [...periods].sort((a, b) => a.startAge - b.startAge): a stable sort of a copy
SortByStartAge(ps) ==
    IF ps = <<>> THEN <<>>
    ELSE InsertByStartAge(SortByStartAge(SubSeq(ps, 1, Len(ps) - 1)), ps[Len(ps)])

\* variant: a single period is rejected too
NoPeriodsOffByOne(sorted) == Len(sorted) <= 1

\* sortedPeriods.length === 0
NoPeriods(sorted) == Len(sorted) = 0

\* variant: the span is taken as a distance
TotalMonthsAbs(end, start) == Abs(end - start)

\* totalYears * 12 with totalYears = endAge - startAge (ages in twelfths)
TotalMonths(end, start) == end - start

\* variant: month < months
LoopStopsEarly(m, total) == m < total

\* month <= months
LoopContinues(m, total) == m <= total

\* startAge + (month - 1) / 12
CurrentAge(start, m) == start + (m - 1)

\* variant: the end of the interval is included
InPeriodClosed(p, age) == age >= p.startAge /\ age <= p.endAge

\* age >= period.startAge && age < period.endAge
InPeriod(p, age) == age >= p.startAge /\ age < p.endAge

RECURSIVE ScanFrom(_, _, _)
ScanFrom(sorted, age, i) ==
    IF i > Len(sorted) THEN 0
    ELSE IF InPeriod(sorted[i], age) THEN i
    ELSE ScanFrom(sorted, age, i + 1)

\* variant: the last period is returned when none contains the age
GetPeriodForAgeOrLast(sorted, age) ==
    IF ScanFrom(sorted, age, 1) = 0 THEN Len(sorted) ELSE ScanFrom(sorted, age, 1)

\* getPeriodForAge: the index in sortedPeriods of the period returned, 0 for null
GetPeriodForAge(sorted, age) == ScanFrom(sorted, age, 1)

\* variant: || in place of ??, so that an override of 0 counts as absent
EffectiveReturnFalsy(sorted, i, globalReturn) ==
    IF i # 0 /\ sorted[i].annualReturn # None /\ sorted[i].annualReturn[1] # 0
    THEN sorted[i].annualReturn[1]
    ELSE globalReturn

\* activePeriod?.annualReturn ?? annualReturn
EffectiveReturn(sorted, i, globalReturn) ==
    IF i # 0 /\ sorted[i].annualReturn # None THEN sorted[i].annualReturn[1]
    ELSE globalReturn

\* effectiveReturn / 100 / 12
MonthlyRate(effectiveReturn) == (effectiveReturn \div PercentBase) \div MonthsPerYear

\* variant: the 1 + is dropped
ApplyGrowthRateOnly(bal, monthlyRate) == bal * monthlyRate

\* balance * (1 + monthlyRate)
ApplyGrowth(bal, monthlyRate) == bal * (1 + monthlyRate)

\* inflationRate / 100
Inflation(rate) == rate \div PercentBase

\* Math.pow(1 + inflation, 1 / 12)
MonthlyInflationFactor(rate) == Root(1 + Inflation(rate), MonthsPerYear)

\* variant: the contribution is counted but not added to the balance
ApplyPeriodSpendingOnly(bal, sorted, i, mult) ==
    IF i # 0 THEN bal - sorted[i].monthlySpending * mult ELSE bal

\* if (activePeriod) { balance += monthlyContribution; balance -= monthlySpending * inflationMultiplier }
ApplyPeriod(bal, sorted, i, mult) ==
    IF i # 0
    THEN bal + sorted[i].monthlyContribution - sorted[i].monthlySpending * mult
    ELSE bal

\* variant: the contribution and the spending are applied before the return
MonthBalanceFlowsFirst(bal, monthlyRate, sorted, i, mult) ==
    ApplyGrowth(ApplyPeriod(bal, sorted, i, mult), monthlyRate)

\* the balance after the month's return, then its contribution and spending
MonthBalance(bal, monthlyRate, sorted, i, mult) ==
    ApplyPeriod(ApplyGrowth(bal, monthlyRate), sorted, i, mult)

\* variant: contributions are accumulated net of spending
AddContributionNet(total, sorted, i) ==
    IF i # 0 THEN total + sorted[i].monthlyContribution - sorted[i].monthlySpending ELSE total

\* if (activePeriod) { totalContributions += monthlyContribution }
AddContribution(total, sorted, i) ==
    IF i # 0 THEN total + sorted[i].monthlyContribution ELSE total

\* month % 12 === 0
IsYearEnd(m) == m % MonthsPerYear = 0

\* variant: the enabled flag is not read
IskPresent(tax) == tax # None

\* iskTax?.enabled
IskEnabled(tax) == tax # None /\ tax[1].enabled

\* variant: the tax has the wrong sign
AnnualTaxNegated(bal, tax) ==
    0 - bal * (((tax[1].governmentBorrowingRate \div PercentBase) * IskShareNum) \div IskShareDen)

\* variant: the 0.30 share is left out
AnnualTaxFullRate(bal, tax) == bal * (tax[1].governmentBorrowingRate \div PercentBase)

\* balance * (iskTax.governmentBorrowingRate / 100) * 0.30
AnnualTax(bal, tax) ==
    bal * (((tax[1].governmentBorrowingRate \div PercentBase) * IskShareNum) \div IskShareDen)

\* the tax charged in month m on the balance bal: none unless a taxed year ends
TaxDue(bal, tax, m) == IF IsYearEnd(m) /\ IskEnabled(tax) THEN AnnualTax(bal, tax) ELSE 0

\* variant: the balance is not deflated
RealBalanceNominal(bal, rate, yearsElapsed) == Quot(bal, 1)

\* balance / Math.pow(1 + inflation, yearsElapsed)
RealBalance(bal, rate, yearsElapsed) == Quot(bal, Pow(1 + Inflation(rate), yearsElapsed))

\* variant: the spending is not inflated
AnnualSpendingNominal(sorted, i, mult) ==
    IF i # 0 THEN sorted[i].monthlySpending * MonthsPerYear ELSE 0

\* period ? period.monthlySpending * 12 * inflationMultiplier : 0
AnnualSpending(sorted, i, mult) ==
    IF i # 0 THEN sorted[i].monthlySpending * MonthsPerYear * mult ELSE 0

\* balance > 0 ? (annualSpending / balance) * 100 : 0
WithdrawalRate(annualSpending, bal) ==
    IF bal > 0 THEN Ratio(annualSpending, bal, PercentBase) ELSE ZeroRatio

\* variant: the first snapshot's realBalance is left at 0
FirstSnapshotNoReal(start, initial, sorted) ==
    [age |-> start, balance |-> initial, realBalance |-> Quot(0, 1),
     contributions |-> initial, growth |-> 0,
     withdrawalRate |->
         WithdrawalRate(AnnualSpending(sorted, GetPeriodForAge(sorted, start), 1), initial),
     taxPaid |-> 0]

\* the snapshot pushed before the loop
FirstSnapshot(start, initial, sorted) ==
    [age |-> start,
     balance |-> initial,
     realBalance |-> Quot(initial, 1),
     contributions |-> initial,
     growth |-> 0,
     withdrawalRate |->
         WithdrawalRate(AnnualSpending(sorted, GetPeriodForAge(sorted, start), 1), initial),
     taxPaid |-> 0]

\* variant: growth is taken gross of the tax paid
YearSnapshotGrossGrowth(start, m, bal, contrib, sorted, mult, rate, paid) ==
    [age |-> start + m, balance |-> bal,
     realBalance |-> RealBalance(bal, rate, m \div MonthsPerYear),
     contributions |-> contrib, growth |-> bal + paid - contrib,
     withdrawalRate |->
         WithdrawalRate(AnnualSpending(sorted, GetPeriodForAge(sorted, start + m), mult), bal),
     taxPaid |-> paid]

\* variant: the withdrawal rate is taken under the period of the month just simulated
YearSnapshotRateOfLastMonth(start, m, bal, contrib, sorted, mult, rate, paid) ==
    [age |-> start + m, balance |-> bal,
     realBalance |-> RealBalance(bal, rate, m \div MonthsPerYear),
     contributions |-> contrib, growth |-> bal - contrib,
     withdrawalRate |->
         WithdrawalRate(AnnualSpending(sorted, GetPeriodForAge(sorted, start + m - 1), mult), bal),
     taxPaid |-> paid]

\* the snapshot pushed when month completes a year
YearSnapshot(start, m, bal, contrib, sorted, mult, rate, paid) ==
    [age |-> start + m,
     balance |-> bal,
     realBalance |-> RealBalance(bal, rate, m \div MonthsPerYear),
     contributions |-> contrib,
     growth |-> bal - contrib,
     withdrawalRate |->
         WithdrawalRate(AnnualSpending(sorted, GetPeriodForAge(sorted, start + m), mult), bal),
     taxPaid |-> paid]

(***************************************************************************)
(* The state machine of one call.                                          *)
(***************************************************************************)
TypeOK ==
    /\ pc \in {"call", "loop", "done", "thrown"}
    /\ periods \in PeriodLists
    /\ month \in 0..(MaxMonths + 1)

Init ==
    /\ initialAmount \in InitialAmounts
    /\ periods \in PeriodLists
    /\ annualReturn \in AnnualReturns
    /\ endAge \in EndAges
    /\ inflationRate \in InflationRates
    /\ iskTax \in IskTaxArgs
    /\ pc = "call"
    /\ sortedPeriods = <<>>
    /\ startAge = 0
    /\ months = 0
    /\ monthlyInflationFactor = 1
    /\ balance = 0
    /\ inflationMultiplier = 1
    /\ cumulativeTaxPaid = 0
    /\ totalContributions = 0
    /\ yearlyBalances = <<>>
    /\ month = 0
    /\ calls = 1
    /\ previous = <<>>
    /\ legacy = None
    /\ editorPeriods = <<>>
    /\ orig = OrigIdle

\* calculateGrowth on an empty periods list: throws 'At least one period is required'
Throw ==
    /\ pc = "call"
    /\ NoPeriods(SortByStartAge(periods))
    /\ pc' = "thrown"
    /\ UNCHANGED <<args, locals, caller>>

\* variant: periods.sort(...) without the copy, which sorts the caller's list
BeginSortsInPlace ==
    /\ pc = "call"
    /\ ~NoPeriods(SortByStartAge(periods))
    /\ LET sorted == SortByStartAge(periods)
           start == sorted[1].startAge
       IN  /\ periods' = sorted
           /\ sortedPeriods' = sorted
           /\ startAge' = start
           /\ months' = TotalMonths(endAge, start)
           /\ monthlyInflationFactor' = MonthlyInflationFactor(inflationRate)
           /\ balance' = initialAmount
           /\ inflationMultiplier' = 1
           /\ cumulativeTaxPaid' = 0
           /\ totalContributions' = initialAmount
           /\ yearlyBalances' = <<FirstSnapshot(start, initialAmount, sorted)>>
           /\ month' = 1
    /\ pc' = "loop"
    /\ UNCHANGED <<initialAmount, annualReturn, endAge, inflationRate, iskTax, caller>>

\* variant: the running tax total is not reset when a call begins
BeginKeepsTax ==
    /\ pc = "call"
    /\ ~NoPeriods(SortByStartAge(periods))
    /\ LET sorted == SortByStartAge(periods)
           start == sorted[1].startAge
       IN  /\ sortedPeriods' = sorted
           /\ startAge' = start
           /\ months' = TotalMonths(endAge, start)
           /\ monthlyInflationFactor' = MonthlyInflationFactor(inflationRate)
           /\ balance' = initialAmount
           /\ inflationMultiplier' = 1
           /\ cumulativeTaxPaid' = cumulativeTaxPaid
           /\ totalContributions' = initialAmount
           /\ yearlyBalances' = <<FirstSnapshot(start, initialAmount, sorted)>>
           /\ month' = 1
    /\ pc' = "loop"
    /\ UNCHANGED <<args, caller>>

\* calculateGrowth up to the loop: the locals and the first snapshot
Begin ==
    /\ pc = "call"
    /\ ~NoPeriods(SortByStartAge(periods))
    /\ LET sorted == SortByStartAge(periods)
           start == sorted[1].startAge
       IN  /\ sortedPeriods' = sorted
           /\ startAge' = start
           /\ months' = TotalMonths(endAge, start)
           /\ monthlyInflationFactor' = MonthlyInflationFactor(inflationRate)
           /\ balance' = initialAmount
           /\ inflationMultiplier' = 1
           /\ cumulativeTaxPaid' = 0
           /\ totalContributions' = initialAmount
           /\ yearlyBalances' = <<FirstSnapshot(start, initialAmount, sorted)>>
           /\ month' = 1
    /\ pc' = "loop"
    /\ UNCHANGED <<args, caller>>

\* variant: the month's spending is scaled before the multiplier is advanced
MonthStepInflatesAfter ==
    /\ pc = "loop"
    /\ LoopContinues(month, months)
    /\ LET activePeriod == GetPeriodForAge(sortedPeriods, CurrentAge(startAge, month))
           monthlyRate == MonthlyRate(EffectiveReturn(sortedPeriods, activePeriod, annualReturn))
           mult == inflationMultiplier * monthlyInflationFactor
           moved == MonthBalance(balance, monthlyRate, sortedPeriods, activePeriod,
                                 inflationMultiplier)
           contrib == AddContribution(totalContributions, sortedPeriods, activePeriod)
           annualTax == TaxDue(moved, iskTax, month)
       IN  /\ balance' = moved - annualTax
           /\ inflationMultiplier' = mult
           /\ totalContributions' = contrib
           /\ cumulativeTaxPaid' = cumulativeTaxPaid + annualTax
           /\ yearlyBalances' =
                 IF IsYearEnd(month)
                 THEN Append(yearlyBalances,
                             YearSnapshot(startAge, month, moved - annualTax, contrib,
                                          sortedPeriods, mult, inflationRate,
                                          cumulativeTaxPaid + annualTax))
                 ELSE yearlyBalances
    /\ month' = month + 1
    /\ UNCHANGED <<args, pc, sortedPeriods, startAge, months, monthlyInflationFactor, caller>>

\* variant: the snapshot is built from the balance before the tax is deducted
MonthStepSnapshotBeforeTax ==
    /\ pc = "loop"
    /\ LoopContinues(month, months)
    /\ LET activePeriod == GetPeriodForAge(sortedPeriods, CurrentAge(startAge, month))
           monthlyRate == MonthlyRate(EffectiveReturn(sortedPeriods, activePeriod, annualReturn))
           mult == inflationMultiplier * monthlyInflationFactor
           moved == MonthBalance(balance, monthlyRate, sortedPeriods, activePeriod, mult)
           contrib == AddContribution(totalContributions, sortedPeriods, activePeriod)
           annualTax == TaxDue(moved, iskTax, month)
       IN  /\ balance' = moved - annualTax
           /\ inflationMultiplier' = mult
           /\ totalContributions' = contrib
           /\ cumulativeTaxPaid' = cumulativeTaxPaid + annualTax
           /\ yearlyBalances' =
                 IF IsYearEnd(month)
                 THEN Append(yearlyBalances,
                             YearSnapshot(startAge, month, moved, contrib,
                                          sortedPeriods, mult, inflationRate,
                                          cumulativeTaxPaid + annualTax))
                 ELSE yearlyBalances
    /\ month' = month + 1
    /\ UNCHANGED <<args, pc, sortedPeriods, startAge, months, monthlyInflationFactor, caller>>

\* variant: between year ends the last snapshot is kept up to date in place
MonthStepRewritesLast ==
    /\ pc = "loop"
    /\ LoopContinues(month, months)
    /\ LET activePeriod == GetPeriodForAge(sortedPeriods, CurrentAge(startAge, month))
           monthlyRate == MonthlyRate(EffectiveReturn(sortedPeriods, activePeriod, annualReturn))
           mult == inflationMultiplier * monthlyInflationFactor
           moved == MonthBalance(balance, monthlyRate, sortedPeriods, activePeriod, mult)
           contrib == AddContribution(totalContributions, sortedPeriods, activePeriod)
           annualTax == TaxDue(moved, iskTax, month)
       IN  /\ balance' = moved - annualTax
           /\ inflationMultiplier' = mult
           /\ totalContributions' = contrib
           /\ cumulativeTaxPaid' = cumulativeTaxPaid + annualTax
           /\ yearlyBalances' =
                 IF IsYearEnd(month)
                 THEN Append(yearlyBalances,
                             YearSnapshot(startAge, month, moved - annualTax, contrib,
                                          sortedPeriods, mult, inflationRate,
                                          cumulativeTaxPaid + annualTax))
                 ELSE [yearlyBalances EXCEPT ![Len(yearlyBalances)].balance = moved]
    /\ month' = month + 1
    /\ UNCHANGED <<args, pc, sortedPeriods, startAge, months, monthlyInflationFactor, caller>>

\* one iteration of the loop over month
MonthStep ==
    /\ pc = "loop"
    /\ LoopContinues(month, months)
    /\ LET activePeriod == GetPeriodForAge(sortedPeriods, CurrentAge(startAge, month))
           monthlyRate == MonthlyRate(EffectiveReturn(sortedPeriods, activePeriod, annualReturn))
           mult == inflationMultiplier * monthlyInflationFactor
           moved == MonthBalance(balance, monthlyRate, sortedPeriods, activePeriod, mult)
           contrib == AddContribution(totalContributions, sortedPeriods, activePeriod)
           annualTax == TaxDue(moved, iskTax, month)
       IN  /\ balance' = moved - annualTax
           /\ inflationMultiplier' = mult
           /\ totalContributions' = contrib
           /\ cumulativeTaxPaid' = cumulativeTaxPaid + annualTax
           /\ yearlyBalances' =
                 IF IsYearEnd(month)
                 THEN Append(yearlyBalances,
                             YearSnapshot(startAge, month, moved - annualTax, contrib,
                                          sortedPeriods, mult, inflationRate,
                                          cumulativeTaxPaid + annualTax))
                 ELSE yearlyBalances
    /\ month' = month + 1
    /\ UNCHANGED <<args, pc, sortedPeriods, startAge, months, monthlyInflationFactor, caller>>

\* the loop ends: return yearlyBalances
Return ==
    /\ pc = "loop"
    /\ ~LoopContinues(month, months)
    /\ pc' = "done"
    /\ UNCHANGED <<args, locals, caller>>

Next == Throw \/ Begin \/ MonthStep \/ Return

Spec == Init /\ [][Next]_vars

\* calls on longer lists of regimes that all run to the end of the second
\* year, so that three and more of them overlap; no inflation, no tax
MaxOverlapPeriods == 3
OverlapLists ==
    SeqsUpTo({p \in Periods : p.endAge = 2 * MonthsPerYear}, MaxOverlapPeriods)

InitOverlaps ==
    /\ initialAmount \in InitialAmounts
    /\ periods \in OverlapLists
    /\ annualReturn \in AnnualReturns
    /\ endAge = 2 * MonthsPerYear
    /\ inflationRate = 0
    /\ iskTax = None
    /\ pc = "call"
    /\ sortedPeriods = <<>>
    /\ startAge = 0
    /\ months = 0
    /\ monthlyInflationFactor = 1
    /\ balance = 0
    /\ inflationMultiplier = 1
    /\ cumulativeTaxPaid = 0
    /\ totalContributions = 0
    /\ yearlyBalances = <<>>
    /\ month = 0
    /\ calls = 1
    /\ previous = <<>>
    /\ legacy = None
    /\ editorPeriods = <<>>
    /\ orig = OrigIdle

SpecOverlaps == InitOverlaps /\ [][Next]_vars

\* the caller keeps what the call returned and calls calculateGrowth again
\* with the same arguments; the new call's locals hold nothing until Begin
CallAgain ==
    /\ pc = "done"
    /\ calls = 1
    /\ previous' = yearlyBalances
    /\ calls' = calls + 1
    /\ pc' = "call"
    /\ UNCHANGED <<args, locals, legacy, editorPeriods, orig>>

NextTwice == Next \/ CallAgain

\* two calls in a row on the same arguments
SpecTwice == Init /\ [][NextTwice]_vars

(***************************************************************************)
(* calculateGrowthLegacy: the adapter from one contribution, one spending  *)
(* and a retirement age to two regimes.                                    *)
(***************************************************************************)
\* LegacyCalculationInputs; endAge is always supplied
LegacyRetirementAges == PeriodStartAges \cup PeriodEndAges \cup {MonthsPerYear \div 2}
LegacyInputs ==
    [initialAmount : InitialAmounts,
     monthlyContribution : {0, 1},
     monthlySpending : {0, 1},
     annualReturn : AnnualReturns,
     startAge : PeriodStartAges,
     retirementAge : LegacyRetirementAges,
     endAge : PeriodEndAges]

\* variant: the second regime keeps the contribution
LegacyPeriodsKeepSaving(in) ==
    << [startAge |-> in.startAge, endAge |-> in.retirementAge,
        monthlyContribution |-> in.monthlyContribution, monthlySpending |-> 0,
        annualReturn |-> None],
       [startAge |-> in.retirementAge, endAge |-> in.endAge,
        monthlyContribution |-> in.monthlyContribution,
        monthlySpending |-> in.monthlySpending,
        annualReturn |-> None] >>

\* const periods: Period[] = [ {...}, {...} ]
LegacyPeriods(in) ==
    << [startAge |-> in.startAge,
        endAge |-> in.retirementAge,
        monthlyContribution |-> in.monthlyContribution,
        monthlySpending |-> 0,
        annualReturn |-> None],
       [startAge |-> in.retirementAge,
        endAge |-> in.endAge,
        monthlyContribution |-> 0,
        monthlySpending |-> in.monthlySpending,
        annualReturn |-> None] >>

\* before the call of calculateGrowthLegacy: calculateGrowth has no arguments yet
InitLegacy ==
    /\ legacy \in {Some(in) : in \in LegacyInputs}
    /\ pc = "legacy"
    /\ initialAmount = 0
    /\ periods = <<>>
    /\ annualReturn = 0
    /\ endAge = 0
    /\ inflationRate = 0
    /\ iskTax = None
    /\ sortedPeriods = <<>>
    /\ startAge = 0
    /\ months = 0
    /\ monthlyInflationFactor = 1
    /\ balance = 0
    /\ inflationMultiplier = 1
    /\ cumulativeTaxPaid = 0
    /\ totalContributions = 0
    /\ yearlyBalances = <<>>
    /\ month = 0
    /\ calls = 1
    /\ previous = <<>>
    /\ editorPeriods = <<>>
    /\ orig = OrigIdle

\* calculateGrowthLegacy: builds the two regimes and calls calculateGrowth
\* with initialAmount, periods, annualReturn and endAge; inflationRate and
\* iskTax are left to their defaults
CalculateGrowthLegacy ==
    /\ pc = "legacy"
    /\ initialAmount' = legacy[1].initialAmount
    /\ periods' = LegacyPeriods(legacy[1])
    /\ annualReturn' = legacy[1].annualReturn
    /\ endAge' = legacy[1].endAge
    /\ inflationRate' = 0
    /\ iskTax' = None
    /\ pc' = "call"
    /\ UNCHANGED <<locals, caller>>

\* the list built is never empty, so the call cannot throw
NextLegacy == CalculateGrowthLegacy \/ Begin \/ MonthStep \/ Return

SpecLegacy == InitLegacy /\ [][NextLegacy]_vars

(***************************************************************************)
(* App: the period editor (src/unnamed/part_000, lines 12-64).  Its ages   *)
(* are whole years, as the user types them.                                *)
(***************************************************************************)
MaxEditorPeriods == 3     \* longest list the editor is grown to
MaxEditorStartAge == 110  \* highest startAge addPeriod is let to produce
MaxRenderMonths == 12     \* longest span a render's call of calculateGrowth is followed for

HorizonAge == 100         \* endAge: 100
AddedPeriodOffset == 10   \* lastPeriod.startAge + 10
AppInitialAmount == 900000    \* useState<number>(900000)

\* useState<Period[]>([...]): the two periods App starts with
InitialEditorPeriods ==
    << [startAge |-> 35, endAge |-> 65, monthlyContribution |-> 10000,
        monthlySpending |-> 0, annualReturn |-> None],
       [startAge |-> 65, endAge |-> HorizonAge, monthlyContribution |-> 0,
        monthlySpending |-> 3000, annualReturn |-> None] >>

\* the fields the inputs of a period card pass to updatePeriod, and values typed
EditorFields == {"startAge", "monthlyContribution", "monthlySpending", "annualReturn"}
EditorValues(field) ==
    IF field = "startAge" THEN {HorizonAge - 1, HorizonAge}
    ELSE IF field = "annualReturn" THEN {None, Some(0)}
    ELSE {0}

\* periodsWithEndAges: each period ends where the next one starts, the last at 100
PeriodsWithEndAges(ps) ==
    [i \in DOMAIN ps |->
        IF i = Len(ps)
        THEN [ps[i] EXCEPT !.endAge = HorizonAge]
        ELSE [ps[i] EXCEPT !.endAge = ps[i + 1].startAge]]

\* ps without its element at index: periods.filter((_, i) => i !== index)
WithoutIndex(ps, index) ==
    [i \in 1..(Len(ps) - 1) |-> IF i < index THEN ps[i] ELSE ps[i + 1]]

\* App mounted, calculateGrowth not running
InitEditor ==
    /\ editorPeriods = InitialEditorPeriods
    /\ pc = "editor"
    /\ initialAmount = 0
    /\ periods = <<>>
    /\ annualReturn = 0
    /\ endAge = 0
    /\ inflationRate = 0
    /\ iskTax = None
    /\ sortedPeriods = <<>>
    /\ startAge = 0
    /\ months = 0
    /\ monthlyInflationFactor = 1
    /\ balance = 0
    /\ inflationMultiplier = 1
    /\ cumulativeTaxPaid = 0
    /\ totalContributions = 0
    /\ yearlyBalances = <<>>
    /\ month = 0
    /\ calls = 1
    /\ previous = <<>>
    /\ legacy = None
    /\ orig = OrigIdle

\* addPeriod: a new idle period 10 years after the last one's startAge
AddPeriod ==
    /\ pc = "editor"
    /\ Len(editorPeriods) < MaxEditorPeriods
    /\ LET lastPeriod == editorPeriods[Len(editorPeriods)]
       IN  /\ lastPeriod.startAge + AddedPeriodOffset <= MaxEditorStartAge
           /\ editorPeriods' =
                 Append(editorPeriods,
                        [startAge |-> lastPeriod.startAge + AddedPeriodOffset,
                         endAge |-> HorizonAge,
                         monthlyContribution |-> 0,
                         monthlySpending |-> 0,
                         annualReturn |-> None])
    /\ UNCHANGED <<args, pc, locals, calls, previous, legacy, orig>>

\* variant: the length is not checked before removing
RemovePeriodUnguarded(index) ==
    /\ pc = "editor"
    /\ editorPeriods' = WithoutIndex(editorPeriods, index)
    /\ UNCHANGED <<args, pc, locals, calls, previous, legacy, orig>>

\* removePeriod(index): nothing happens on a list of one period
RemovePeriod(index) ==
    /\ pc = "editor"
    /\ editorPeriods' =
          IF Len(editorPeriods) > 1 THEN WithoutIndex(editorPeriods, index)
          ELSE editorPeriods
    /\ UNCHANGED <<args, pc, locals, calls, previous, legacy, orig>>

\* updatePeriod(index, field, value)
UpdatePeriod(index, field, value) ==
    /\ pc = "editor"
    /\ editorPeriods' =
          [editorPeriods EXCEPT ![index] = [editorPeriods[index] EXCEPT ![field] = value]]
    /\ UNCHANGED <<args, pc, locals, calls, previous, legacy, orig>>

NextEditor ==
    \/ AddPeriod
    \/ \E index \in DOMAIN editorPeriods : RemovePeriod(index)
    \/ \E index \in DOMAIN editorPeriods : \E field \in EditorFields :
           \E value \in EditorValues(field) : UpdatePeriod(index, field, value)

SpecEditor == InitEditor /\ [][NextEditor]_vars

\* a period of the editor as calculateGrowth's model reads it: ages in twelfths
InTwelfths(p) ==
    [p EXCEPT !.startAge = p.startAge * MonthsPerYear, !.endAge = p.endAge * MonthsPerYear]

\* a render of App: calculateGrowth is called on periodsWithEndAges with
\* endAge 100.  The initial amount is the one App starts with; the global
\* return and the inflation are 0 (typed by the user) and the tax is off.
Render ==
    /\ pc = "editor"
    /\ LET passed == PeriodsWithEndAges(editorPeriods)
       IN  /\ \E p \in Range(passed) :
                 /\ \A q \in Range(passed) : p.startAge <= q.startAge
                 /\ (HorizonAge - p.startAge) * MonthsPerYear <= MaxRenderMonths
           /\ periods' = [i \in DOMAIN passed |-> InTwelfths(passed[i])]
    /\ initialAmount' = AppInitialAmount
    /\ annualReturn' = 0
    /\ endAge' = HorizonAge * MonthsPerYear
    /\ inflationRate' = 0
    /\ iskTax' = None
    /\ pc' = "call"
    /\ UNCHANGED <<locals, caller>>

\* the callers of calculateGrowth side by side: a direct call, a call through
\* calculateGrowthLegacy, a render of App
InitCallers == Init \/ InitLegacy \/ InitEditor
NextCallers == Next \/ CalculateGrowthLegacy \/ NextEditor \/ Render
SpecCallers == InitCallers /\ [][NextCallers]_vars

(***************************************************************************)
(* The original engine: calculateGrowth of src/src/calculator.ts (lines    *)
(* 34-115), without inflation, tax or return override.  Its locals are the *)
(* fields of orig.  It is run side by side with the extended engine on the *)
(* same arguments.                                                         *)
(***************************************************************************)
\* annualReturn / 100 / 12, once for the whole call
OrigMonthlyRate(rate) == (rate \div PercentBase) \div MonthsPerYear

\* variant: the monthly spending is not annualised
OrigSpendingOfMonth(sorted, i) ==
    IF i # 0 THEN sorted[i].monthlySpending ELSE 0

\* period ? period.monthlySpending * 12 : 0
OrigAnnualSpending(sorted, i) ==
    IF i # 0 THEN sorted[i].monthlySpending * MonthsPerYear ELSE 0

\* the snapshot pushed at age: five fields
OrigSnapshot(age, bal, contrib, grown, sorted) ==
    [age |-> age,
     balance |-> bal,
     contributions |-> contrib,
     growth |-> grown,
     withdrawalRate |->
         WithdrawalRate(OrigAnnualSpending(sorted, GetPeriodForAge(sorted, age)), bal)]

\* balance * (1 + monthlyRate), then the active period's contribution and spending
OrigMonthBalance(bal, monthlyRate, sorted, i) ==
    IF i # 0
    THEN bal * (1 + monthlyRate) + sorted[i].monthlyContribution - sorted[i].monthlySpending
    ELSE bal * (1 + monthlyRate)

\* the periods of the original engine have no annualReturn
PlainPeriodLists ==
    SeqsUpTo({[p EXCEPT !.annualReturn = None] : p \in Periods}, MaxPeriods)

\* both engines about to be called on the same arguments
InitSide ==
    /\ initialAmount \in InitialAmounts
    /\ periods \in PlainPeriodLists
    /\ annualReturn \in AnnualReturns
    /\ endAge \in EndAges
    /\ inflationRate = 0
    /\ iskTax = None
    /\ pc = "call"
    /\ sortedPeriods = <<>>
    /\ startAge = 0
    /\ months = 0
    /\ monthlyInflationFactor = 1
    /\ balance = 0
    /\ inflationMultiplier = 1
    /\ cumulativeTaxPaid = 0
    /\ totalContributions = 0
    /\ yearlyBalances = <<>>
    /\ month = 0
    /\ calls = 1
    /\ previous = <<>>
    /\ legacy = None
    /\ editorPeriods = <<>>
    /\ orig = [OrigIdle EXCEPT !.pc = "call"]

OrigThrow ==
    /\ orig.pc = "call"
    /\ NoPeriods(SortByStartAge(periods))
    /\ orig' = [orig EXCEPT !.pc = "thrown"]
    /\ UNCHANGED <<args, pc, locals, calls, previous, legacy, editorPeriods>>

OrigBegin ==
    /\ orig.pc = "call"
    /\ ~NoPeriods(SortByStartAge(periods))
    /\ LET sorted == SortByStartAge(periods)
           start == sorted[1].startAge
       IN  orig' = [pc |-> "loop",
                    sortedPeriods |-> sorted,
                    startAge |-> start,
                    months |-> TotalMonths(endAge, start),
                    balance |-> initialAmount,
                    totalContributions |-> initialAmount,
                    yearlyBalances |->
                        <<OrigSnapshot(start, initialAmount, initialAmount, 0, sorted)>>,
                    month |-> 1]
    /\ UNCHANGED <<args, pc, locals, calls, previous, legacy, editorPeriods>>

OrigMonthStep ==
    /\ orig.pc = "loop"
    /\ LoopContinues(orig.month, orig.months)
    /\ LET activePeriod ==
               GetPeriodForAge(orig.sortedPeriods, CurrentAge(orig.startAge, orig.month))
           moved == OrigMonthBalance(orig.balance, OrigMonthlyRate(annualReturn),
                                     orig.sortedPeriods, activePeriod)
           contrib == AddContribution(orig.totalContributions, orig.sortedPeriods,
                                      activePeriod)
       IN  orig' = [orig EXCEPT
                      !.balance = moved,
                      !.totalContributions = contrib,
                      !.yearlyBalances =
                          IF IsYearEnd(orig.month)
                          THEN Append(orig.yearlyBalances,
                                      OrigSnapshot(orig.startAge + orig.month, moved, contrib,
                                                   moved - contrib, orig.sortedPeriods))
                          ELSE orig.yearlyBalances,
                      !.month = orig.month + 1]
    /\ UNCHANGED <<args, pc, locals, calls, previous, legacy, editorPeriods>>

OrigReturn ==
    /\ orig.pc = "loop"
    /\ ~LoopContinues(orig.month, orig.months)
    /\ orig' = [orig EXCEPT !.pc = "done"]
    /\ UNCHANGED <<args, pc, locals, calls, previous, legacy, editorPeriods>>

\* the two engines are at the same point of their runs
InStep == orig.pc = pc /\ orig.month = month

\* side by side: the extended engine takes a step, the original one follows
NextSide ==
    \/ InStep /\ Next
    \/ ~InStep /\ (OrigThrow \/ OrigBegin \/ OrigMonthStep \/ OrigReturn)

SpecSideBySide == InitSide /\ [][NextSide]_vars

(***************************************************************************)
(* What the properties are stated with: read off the arguments and the     *)
(* snapshots, not off the operators of the engine.                         *)
(***************************************************************************)

\* the call is past its validation: it has pushed its first snapshot
Running == pc \in {"loop", "done"}

\* the minimum startAge among the regimes of a non-empty list
MinStartAge(ps) == CHOOSE a \in {p.startAge : p \in Range(ps)} :
                       \A p \in Range(ps) : a <= p.startAge

\* the half-open interval [startAge, endAge) of p contains age
Contains(p, age) == p.startAge <= age /\ age < p.endAge

\* the regimes containing age that start earliest
EarliestContaining(ps, age) ==
    {p \in Range(ps) : /\ Contains(p, age)
                       /\ \A q \in Range(ps) : Contains(q, age) => p.startAge <= q.startAge}

\* the annual return in force under regime p
ReturnUnder(p) == IF p.annualReturn = None THEN annualReturn ELSE p.annualReturn[1]

\* the tax policy is absent or disabled
TaxOff == iskTax = None \/ ~iskTax[1].enabled

\* the tax charged by the step being taken
TaxCharged == cumulativeTaxPaid' - cumulativeTaxPaid

\* the last snapshot pushed
LastSnapshot == yearlyBalances[Len(yearlyBalances)]

(***************************************************************************)
(* C1: an empty periods list makes calculateGrowth throw instead of        *)
(* returning snapshots, and nothing else does: a call on a non-empty list  *)
(* pushes its first snapshot, never throws afterwards, and its month      *)
(* counter stays within the span, so it returns a non-empty sequence.     *)
(***************************************************************************)
C1_ThrowsOnlyOnEmpty ==
    /\ pc = "thrown" => (periods = <<>> /\ yearlyBalances = <<>>)
    /\ Running => (periods # <<>> /\ Len(yearlyBalances) >= 1)
    /\ Running => (month >= 1 /\ (month = 1 \/ month <= endAge - MinStartAge(periods) + 1))

C1_Witness == pc = "thrown" /\ periods = <<>>

(***************************************************************************)
(* C2: every snapshot, the first one and each yearly one, with or without  *)
(* tax and inflation, has balance = contributions + growth.                *)
(***************************************************************************)
C2_BalanceSplits ==
    \A i \in DOMAIN yearlyBalances :
        yearlyBalances[i].balance = yearlyBalances[i].contributions + yearlyBalances[i].growth

C2_Witness ==
    /\ Len(yearlyBalances) >= 3
    /\ inflationRate > 0
    /\ LastSnapshot.taxPaid # 0
    /\ LastSnapshot.growth # 0
    /\ LastSnapshot.contributions # initialAmount

(***************************************************************************)
(* C3: when the horizon h lies a whole number n >= 0 of years after the    *)
(* minimum startAge s, the call returns exactly n + 1 snapshots, of ages   *)
(* s, s + 1, ..., h in this order, whatever the balance does.              *)
(***************************************************************************)
C3_OneSnapshotPerYear ==
    (pc = "done" /\ endAge - MinStartAge(periods) >= 0
                 /\ (endAge - MinStartAge(periods)) % MonthsPerYear = 0)
    => /\ Len(yearlyBalances) = (endAge - MinStartAge(periods)) \div MonthsPerYear + 1
       /\ \A i \in DOMAIN yearlyBalances :
              yearlyBalances[i].age = MinStartAge(periods) + (i - 1) * MonthsPerYear
       /\ LastSnapshot.age = endAge

C3_Witness ==
    /\ pc = "done"
    /\ endAge - MinStartAge(periods) = 2 * MonthsPerYear
    /\ Len(yearlyBalances) = 3
    /\ yearlyBalances[2].balance < 0

(***************************************************************************)
(* C4: when the horizon is at or before the start age, the call takes no   *)
(* monthly step and returns one snapshot, at the start age, with balance = *)
(* contributions = initial balance, growth = 0 and taxPaid = 0.            *)
(***************************************************************************)
C4_EmptySpan ==
    (Running /\ endAge - MinStartAge(periods) <= 0)
    => /\ month = 1
       /\ balance = initialAmount
       /\ Len(yearlyBalances) = 1
       /\ yearlyBalances[1].age = MinStartAge(periods)
       /\ yearlyBalances[1].balance = initialAmount
       /\ yearlyBalances[1].contributions = initialAmount
       /\ yearlyBalances[1].growth = 0
       /\ yearlyBalances[1].taxPaid = 0

C4_Witness ==
    /\ pc = "done"
    /\ endAge - MinStartAge(periods) < 0
    /\ initialAmount # 0
    /\ ~TaxOff

(***************************************************************************)
(* C5: in every month the regime applied is one that contains the month's  *)
(* starting age and starts earliest among the regimes containing it, also  *)
(* when the regimes overlap or were supplied unsorted: its contribution,   *)
(* its spending and its return override are what the step applies; when no *)
(* regime contains the age, only the global return is applied.             *)
(***************************************************************************)
C5_EarliestRegimeApplies ==
    [][MonthStep =>
        LET age == MinStartAge(periods) + (month - 1)
            active == EarliestContaining(periods, age)
        IN  IF active = {}
            THEN /\ totalContributions' = totalContributions
                 /\ balance' + TaxCharged =
                        balance * (1 + (annualReturn \div PercentBase) \div MonthsPerYear)
            ELSE \E p \in active :
                 /\ totalContributions' = totalContributions + p.monthlyContribution
                 /\ balance' + TaxCharged =
                        balance * (1 + (ReturnUnder(p) \div PercentBase) \div MonthsPerYear)
                        + p.monthlyContribution
                        - p.monthlySpending * inflationMultiplier'
    ]_vars

\* a step has just applied the later-declared, earlier-starting one of two
\* overlapping regimes that differ in what they contribute
C5_Witness ==
    /\ pc = "loop"
    /\ month >= 2
    /\ Len(periods) = 2
    /\ periods[1].startAge > periods[2].startAge
    /\ Contains(periods[1], startAge + (month - 2))
    /\ Contains(periods[2], startAge + (month - 2))
    /\ periods[1].monthlyContribution # periods[2].monthlyContribution
    /\ periods[1].annualReturn # periods[2].annualReturn
(***************************************************************************)
(* C6: with no contribution, no spending, no tax and the same effective    *)
(* annual return R in every month, the balance of the k-th yearly snapshot *)
(* is initialBalance * (1 + R/100/12)^(12k).                               *)
(***************************************************************************)
\* every regime is idle and runs at the global return; no tax
PureCompounding ==
    /\ TaxOff
    /\ \A p \in Range(periods) :
           /\ p.monthlyContribution = 0
           /\ p.monthlySpending = 0
           /\ ReturnUnder(p) = annualReturn

C6_MonthlyCompounding ==
    PureCompounding =>
        \A i \in DOMAIN yearlyBalances :
            yearlyBalances[i].balance =
                initialAmount
                * Pow(1 + (annualReturn \div PercentBase) \div MonthsPerYear,
                      MonthsPerYear * (i - 1))

C6_Witness ==
    /\ PureCompounding
    /\ periods # <<>>
    /\ annualReturn = 1200
    /\ Len(yearlyBalances) = 3
    /\ LastSnapshot.balance = 16777216

(***************************************************************************)
(* C7: the contributions of the snapshot after k years are the initial     *)
(* balance plus, for each of the first 12k months, the monthlyContribution *)
(* of the regime active at the start of that month; spending, tax and      *)
(* inflation leave them alone.                                             *)
(***************************************************************************)
\* the monthlyContribution of the first regime, in ascending startAge order,
\* that contains the starting age of month m
ContributionOfMonth(m) ==
    LET age == MinStartAge(periods) + (m - 1)
        sorted == sortedPeriods
        hits == {j \in DOMAIN sorted : Contains(sorted[j], age)}
    IN  IF hits = {} THEN 0
        ELSE sorted[CHOOSE j \in hits : \A h \in hits : j <= h].monthlyContribution

RECURSIVE ContributedThrough(_)
ContributedThrough(m) ==
    IF m = 0 THEN 0 ELSE ContributedThrough(m - 1) + ContributionOfMonth(m)

C7_ContributionsAccumulate ==
    \A i \in DOMAIN yearlyBalances :
        yearlyBalances[i].contributions =
            initialAmount + ContributedThrough(MonthsPerYear * (i - 1))

C7_Witness ==
    /\ Len(yearlyBalances) = 3
    /\ ~TaxOff
    /\ inflationRate > 0
    /\ Len(periods) = 2
    /\ \E i, j \in DOMAIN periods :
           /\ periods[i].monthlyContribution > 0
           /\ periods[i].startAge = 0 /\ periods[i].endAge = MonthsPerYear
           /\ periods[j].monthlySpending > 0
           /\ periods[j].startAge = MonthsPerYear /\ periods[j].endAge = 2 * MonthsPerYear
    /\ LastSnapshot.contributions = initialAmount + MonthsPerYear
    /\ LastSnapshot.taxPaid # 0

(***************************************************************************)
(* C8: with an inflation rate of 0, every snapshot has realBalance =       *)
(* balance.                                                                *)
(***************************************************************************)
C8_RealIsNominalWithoutInflation ==
    inflationRate = 0 =>
        \A i \in DOMAIN yearlyBalances :
            QuotEqInt(yearlyBalances[i].realBalance, yearlyBalances[i].balance)

C8_Witness ==
    /\ inflationRate = 0
    /\ Len(yearlyBalances) = 3
    /\ LastSnapshot.balance # 0
    /\ LastSnapshot.balance # initialAmount
    /\ LastSnapshot.taxPaid # 0

(***************************************************************************)
(* C9 as stated: with an inflation rate above 0, every snapshot after the  *)
(* first has realBalance < balance, for all inputs.                        *)
(***************************************************************************)
C9_RealBelowNominal ==
    inflationRate > 0 =>
        \A i \in DOMAIN yearlyBalances :
            i >= 2 => QuotLtInt(yearlyBalances[i].realBalance, yearlyBalances[i].balance)

(***************************************************************************)
(* C9 amended: with an inflation rate above 0, every snapshot after the    *)
(* first whose balance is positive has realBalance < balance.              *)
(***************************************************************************)
C9_RealBelowPositiveNominal ==
    inflationRate > 0 =>
        \A i \in DOMAIN yearlyBalances :
            (i >= 2 /\ yearlyBalances[i].balance > 0)
            => QuotLtInt(yearlyBalances[i].realBalance, yearlyBalances[i].balance)

C9_Witness ==
    /\ inflationRate > 0
    /\ Len(yearlyBalances) = 3
    /\ yearlyBalances[2].balance > 0
    /\ yearlyBalances[3].balance > 0
    /\ yearlyBalances[3].realBalance.den > 1

(***************************************************************************)
(* C10: with the tax policy absent or disabled, every snapshot has         *)
(* taxPaid = 0 and no step takes tax off the balance: a step changes the   *)
(* balance by the month's return, contribution and spending alone.         *)
(***************************************************************************)
C10_NoTaxWhenOff ==
    [][TaxOff =>
        /\ cumulativeTaxPaid' = 0
        /\ \A i \in DOMAIN yearlyBalances' : yearlyBalances'[i].taxPaid = 0
        /\ MonthStep =>
              LET active == EarliestContaining(periods, MinStartAge(periods) + (month - 1))
              IN  IF active = {}
                  THEN balance' = balance * (1 + (annualReturn \div PercentBase) \div MonthsPerYear)
                  ELSE \E p \in active :
                          balance' =
                              balance * (1 + (ReturnUnder(p) \div PercentBase) \div MonthsPerYear)
                              + p.monthlyContribution
                              - p.monthlySpending * inflationMultiplier'
    ]_vars

\* a disabled policy with a rate, after a year end on a non-zero balance
C10_Witness ==
    /\ iskTax # None
    /\ TaxOff
    /\ iskTax[1].governmentBorrowingRate > 0
    /\ Len(yearlyBalances) = 3
    /\ yearlyBalances[2].balance # 0
    /\ LastSnapshot.balance # 0
(***************************************************************************)
(* C11 as stated: with tax enabled at a fixed rate, taxPaid never          *)
(* decreases from one snapshot to the next, for all inputs.                *)
(***************************************************************************)
C11_TaxPaidNeverDecreases ==
    ~TaxOff =>
        \A i \in DOMAIN yearlyBalances :
            i >= 2 => yearlyBalances[i].taxPaid >= yearlyBalances[i - 1].taxPaid

\* the balance the tax of snapshot i (i >= 2) was charged on: what the
\* snapshot holds plus the tax taken that year
TaxedBalance(i) ==
    yearlyBalances[i].balance + (yearlyBalances[i].taxPaid - yearlyBalances[i - 1].taxPaid)

(***************************************************************************)
(* C11 amended: with tax enabled at a fixed rate that is not negative,     *)
(* taxPaid of a snapshot is at least taxPaid of the snapshot before it     *)
(* whenever the balance that year's tax was charged on is not negative.    *)
(***************************************************************************)
C11_TaxPaidGrowsOnNonNegativeBalance ==
    (~TaxOff /\ iskTax[1].governmentBorrowingRate >= 0) =>
        \A i \in DOMAIN yearlyBalances :
            (i >= 2 /\ TaxedBalance(i) >= 0)
            => yearlyBalances[i].taxPaid >= yearlyBalances[i - 1].taxPaid

C11_Witness ==
    /\ ~TaxOff
    /\ Len(yearlyBalances) = 3
    /\ TaxedBalance(2) > 0
    /\ TaxedBalance(3) > 0
    /\ yearlyBalances[2].taxPaid > 0
    /\ yearlyBalances[3].taxPaid > yearlyBalances[2].taxPaid

(***************************************************************************)
(* C12: with tax enabled, the step that completes a year charges           *)
(* (balance after that month's return, contribution and spending) *        *)
(* governmentBorrowingRate / 100 * 0.30, takes it off the balance, and     *)
(* pushes a snapshot whose taxPaid is the previous snapshot's taxPaid plus *)
(* this charge; no other step charges anything.                            *)
(***************************************************************************)
\* rate / 100 * 0.30 of the amount x
IskTaxOn(x) ==
    x * ((iskTax[1].governmentBorrowingRate * IskShareNum) \div (PercentBase * IskShareDen))

\* the step being taken charges the year's tax on the balance pre
ChargesTaxOn(pre) ==
    /\ TaxCharged = IskTaxOn(pre)
    /\ balance' = pre - IskTaxOn(pre)

C12_YearlyTax ==
    [][(MonthStep /\ ~TaxOff) =>
        IF month % MonthsPerYear # 0
        THEN TaxCharged = 0 /\ yearlyBalances' = yearlyBalances
        ELSE /\ LET active == EarliestContaining(periods, MinStartAge(periods) + (month - 1))
                    global == (annualReturn \div PercentBase) \div MonthsPerYear
                IN  IF active = {}
                    THEN ChargesTaxOn(balance * (1 + global))
                    ELSE \E p \in active :
                            ChargesTaxOn(balance
                                             * (1 + (ReturnUnder(p) \div PercentBase) \div MonthsPerYear)
                                         + p.monthlyContribution
                                         - p.monthlySpending * inflationMultiplier')
             /\ Len(yearlyBalances') = Len(yearlyBalances) + 1
             /\ yearlyBalances'[Len(yearlyBalances')].taxPaid = LastSnapshot.taxPaid + TaxCharged
             /\ yearlyBalances'[Len(yearlyBalances')].balance = balance'
    ]_vars

C12_Witness ==
    /\ ~TaxOff
    /\ Len(yearlyBalances) = 3
    /\ yearlyBalances[2].taxPaid # 0
    /\ yearlyBalances[3].taxPaid # yearlyBalances[2].taxPaid
    /\ yearlyBalances[3].contributions # initialAmount
    /\ yearlyBalances[3].taxPaid = 3 * TaxedBalance(2) + 3 * TaxedBalance(3)

(***************************************************************************)
(* C13: the withdrawalRate of a snapshot is (monthlySpending of the regime *)
(* active at the snapshot's age * 12 * the inflation multiplier so far /   *)
(* balance) * 100 when the balance is above 0 and a regime is active at    *)
(* that age, and 0 when the balance is 0 or less or no regime is active.   *)
(***************************************************************************)
\* (1 + inflation)^years: the inflation multiplier after whole years
InflationAfterYears(years) == Pow(1 + inflationRate \div PercentBase, years)

\* the value of the withdrawal rate w is 0
RateIsZero(w) == w.num = 0

C13_WithdrawalRate ==
    \A i \in DOMAIN yearlyBalances :
        LET snap == yearlyBalances[i]
            active == EarliestContaining(periods, snap.age)
        IN  IF snap.balance <= 0 \/ active = {}
            THEN RateIsZero(snap.withdrawalRate)
            ELSE \E p \in active :
                    snap.withdrawalRate =
                        [num |-> p.monthlySpending * MonthsPerYear * InflationAfterYears(i - 1),
                         den |-> snap.balance,
                         scale |-> PercentBase]

\* a yearly snapshot on a positive balance under a spending regime, inflated
C13_Witness ==
    /\ inflationRate > 0
    /\ Len(yearlyBalances) >= 2
    /\ \E i \in DOMAIN yearlyBalances :
          /\ i >= 2
          /\ yearlyBalances[i].balance > 0
          /\ yearlyBalances[i].withdrawalRate.num = MonthsPerYear * InflationAfterYears(i - 1)
          /\ yearlyBalances[i].withdrawalRate.num > MonthsPerYear

(***************************************************************************)
(* C14: the return a month compounds at is the active regime's override    *)
(* when it has one, an override of 0 included, and the global return when  *)
(* it has none or no regime is active; giving a regime without override an *)
(* override equal to the global return changes the return of no regime.    *)
(***************************************************************************)
\* p with its absent override written out as the global return
WithGlobalAsOverride(p) ==
    IF p.annualReturn = None THEN [p EXCEPT !.annualReturn = Some(annualReturn)] ELSE p

\* what the step being taken added to the balance besides the flows of regime p
GrownBalance(p) ==
    balance' + TaxCharged - p.monthlyContribution + p.monthlySpending * inflationMultiplier'

C14_OverrideElseGlobal ==
    [][MonthStep =>
        LET active == EarliestContaining(periods, MinStartAge(periods) + (month - 1))
            filled == [k \in DOMAIN sortedPeriods |-> WithGlobalAsOverride(sortedPeriods[k])]
        IN  /\ IF active = {}
               THEN balance' + TaxCharged =
                        balance * (1 + (annualReturn \div PercentBase) \div MonthsPerYear)
               ELSE \E p \in active :
                       GrownBalance(p) =
                           balance * (1 + ((IF p.annualReturn # None THEN p.annualReturn[1]
                                            ELSE annualReturn) \div PercentBase)
                                          \div MonthsPerYear)
            /\ \A k \in DOMAIN sortedPeriods : \A g \in AnnualReturns :
                   EffectiveReturn(filled, k, g)
                       = EffectiveReturn(sortedPeriods, k, annualReturn)
    ]_vars

\* a step has just compounded a non-zero balance at an override of 0 under
\* a non-zero global return, after a regime without override
C14_Witness ==
    /\ pc = "loop"
    /\ month = MonthsPerYear + 2
    /\ annualReturn # 0
    /\ Len(sortedPeriods) = 2
    /\ sortedPeriods[1].annualReturn = None
    /\ sortedPeriods[1].endAge = MonthsPerYear
    /\ sortedPeriods[2].annualReturn = Some(0)
    /\ Contains(sortedPeriods[2], startAge + MonthsPerYear)
    /\ ~Contains(sortedPeriods[1], startAge + MonthsPerYear)
    /\ yearlyBalances[2].balance > 1
    /\ TaxOff /\ inflationRate = 0
    /\ balance = yearlyBalances[2].balance - sortedPeriods[2].monthlySpending

(***************************************************************************)
(* C15: a second call of calculateGrowth on the arguments of the first     *)
(* returns the same sequence of snapshots: at every point of the second    *)
(* call its snapshots are the first ones the first call returned, and at   *)
(* its return they are all of them.                                        *)
(***************************************************************************)
C15_SameInputsSameSnapshots ==
    (calls = 2 /\ Running) =>
        /\ Len(yearlyBalances) <= Len(previous)
        /\ yearlyBalances = SubSeq(previous, 1, Len(yearlyBalances))
        /\ pc = "done" => yearlyBalances = previous

\* the second call has returned three snapshots with tax, inflation and flows
C15_Witness ==
    /\ calls = 2
    /\ pc = "done"
    /\ Len(previous) = 3
    /\ Len(yearlyBalances) = 3
    /\ LastSnapshot.taxPaid # 0
    /\ inflationRate > 0
    /\ LastSnapshot.contributions # initialAmount
    /\ yearlyBalances[2].withdrawalRate.num # 0

(***************************************************************************)
(* C16: no step of calculateGrowth changes the periods list of its caller, *)
(* neither the order of the regimes nor a field of one: the sort works on  *)
(* a copy.                                                                 *)
(***************************************************************************)
C16_PeriodsUntouched == [][periods' = periods]_vars

\* a call has returned after sorting a list that was passed out of order
C16_Witness ==
    /\ pc = "done"
    /\ Len(periods) = 2
    /\ periods[1].startAge > periods[2].startAge
    /\ sortedPeriods = <<periods[2], periods[1]>>
    /\ sortedPeriods # periods
    /\ Len(yearlyBalances) = 3

(***************************************************************************)
(* C17: a regime whose startAge equals its endAge is active in no month    *)
(* and does not make the call fail: on a list holding such a regime the    *)
(* call never throws, and each month applies a regime of non-zero length   *)
(* (the earliest-starting one containing the age) or, when there is none,  *)
(* the global return alone. This is how the legacy call with startAge =    *)
(* retirementAge spends from its first month.                              *)
(***************************************************************************)
ZeroLength(p) == p.startAge = p.endAge

C17_ZeroLengthRegimeInert ==
    [][(\E z \in Range(periods) : ZeroLength(z)) =>
        /\ pc' # "thrown"
        /\ MonthStep =>
              LET age == MinStartAge(periods) + (month - 1)
                  live == {p \in Range(periods) :
                              /\ ~ZeroLength(p)
                              /\ p.startAge <= age /\ age < p.endAge
                              /\ \A q \in Range(periods) :
                                     (~ZeroLength(q) /\ q.startAge <= age /\ age < q.endAge)
                                     => p.startAge <= q.startAge}
              IN  IF live = {}
                  THEN /\ totalContributions' = totalContributions
                       /\ balance' + TaxCharged =
                              balance * (1 + (annualReturn \div PercentBase) \div MonthsPerYear)
                  ELSE \E p \in live :
                       /\ totalContributions' = totalContributions + p.monthlyContribution
                       /\ balance' + TaxCharged =
                              balance * (1 + (ReturnUnder(p) \div PercentBase) \div MonthsPerYear)
                              + p.monthlyContribution
                              - p.monthlySpending * inflationMultiplier'
    ]_vars

\* the two regimes of a legacy call with startAge = retirementAge: the call
\* has returned, having saved nothing and spent in each of its 12 months
C17_Witness ==
    /\ pc = "done"
    /\ Len(periods) = 2
    /\ ZeroLength(periods[1])
    /\ periods[1].monthlyContribution > 0
    /\ periods[2].startAge = periods[1].endAge
    /\ periods[2].monthlySpending > 0
    /\ ~ZeroLength(periods[2])
    /\ TaxOff /\ inflationRate = 0
    /\ Len(yearlyBalances) = 2
    /\ LastSnapshot.contributions = initialAmount
    /\ LastSnapshot.balance = initialAmount - MonthsPerYear * periods[2].monthlySpending

(***************************************************************************)
(* C18: at a snapshot before which every month ran at an effective return  *)
(* of 0 and under no spending, balance + taxPaid = contributions; when tax *)
(* is off as well, balance = contributions and growth = 0.                 *)
(***************************************************************************)
\* month m of the call runs at return 0 and spends nothing
FlatMonth(m) ==
    LET active == EarliestContaining(periods, MinStartAge(periods) + (m - 1))
    IN  IF active = {} THEN annualReturn = 0
        ELSE \A p \in active : ReturnUnder(p) = 0 /\ p.monthlySpending = 0

C18_ContributionsConserved ==
    \A i \in DOMAIN yearlyBalances :
        (\A m \in 1..(MonthsPerYear * (i - 1)) : FlatMonth(m)) =>
            /\ yearlyBalances[i].balance + yearlyBalances[i].taxPaid
                   = yearlyBalances[i].contributions
            /\ TaxOff => /\ yearlyBalances[i].balance = yearlyBalances[i].contributions
                         /\ yearlyBalances[i].growth = 0

\* two flat years with savings, taxed at each year end
C18_Witness ==
    /\ Len(yearlyBalances) = 3
    /\ \A m \in 1..(2 * MonthsPerYear) : FlatMonth(m)
    /\ ~TaxOff
    /\ yearlyBalances[2].taxPaid # 0
    /\ LastSnapshot.taxPaid # yearlyBalances[2].taxPaid
    /\ LastSnapshot.contributions > yearlyBalances[2].contributions
    /\ yearlyBalances[2].contributions > initialAmount
    /\ LastSnapshot.growth # 0

(***************************************************************************)
(* C19: calculateGrowthLegacy runs calculateGrowth on its initialAmount,   *)
(* annualReturn and endAge and on exactly two regimes, [startAge,          *)
(* retirementAge) with the contribution and no spending, then              *)
(* [retirementAge, endAge) with no contribution and the spending, without  *)
(* inflation or tax; so for startAge <= retirementAge every snapshot of    *)
(* age retirementAge or more has the same contributions: the initial       *)
(* amount plus the contribution of each month from startAge to             *)
(* retirementAge.                                                          *)
(***************************************************************************)
C19_LegacyIsTwoRegimes ==
    (legacy # None /\ pc # "legacy") =>
        LET in == legacy[1]
        IN  /\ Len(periods) = 2
            /\ periods[1].startAge = in.startAge
            /\ periods[1].endAge = in.retirementAge
            /\ periods[1].monthlyContribution = in.monthlyContribution
            /\ periods[1].monthlySpending = 0
            /\ periods[2].startAge = in.retirementAge
            /\ periods[2].endAge = in.endAge
            /\ periods[2].monthlyContribution = 0
            /\ periods[2].monthlySpending = in.monthlySpending
            /\ periods[1].annualReturn = None /\ periods[2].annualReturn = None
            /\ initialAmount = in.initialAmount
            /\ annualReturn = in.annualReturn
            /\ endAge = in.endAge
            /\ inflationRate = 0
            /\ TaxOff
            /\ in.startAge <= in.retirementAge =>
                  \A i \in DOMAIN yearlyBalances :
                      yearlyBalances[i].age >= in.retirementAge =>
                          yearlyBalances[i].contributions =
                              in.initialAmount
                              + in.monthlyContribution * (in.retirementAge - in.startAge)

\* a legacy call that saved for its first year and spent in its second
C19_Witness ==
    /\ legacy # None
    /\ pc = "done"
    /\ legacy[1].monthlyContribution > 0
    /\ legacy[1].monthlySpending > 0
    /\ legacy[1].annualReturn > 0
    /\ legacy[1].retirementAge = legacy[1].startAge + MonthsPerYear
    /\ Len(yearlyBalances) = 3
    /\ yearlyBalances[2].contributions = initialAmount + MonthsPerYear
    /\ yearlyBalances[3].contributions = yearlyBalances[2].contributions
    /\ yearlyBalances[3].balance # yearlyBalances[2].balance

(***************************************************************************)
(* C20: in each monthly step the return is applied to the balance carried  *)
(* over from the month before, and the month's contribution and inflated   *)
(* spending are applied after it: balance after (before any year-end tax)  *)
(* = balance before * (1 + monthlyRate) + monthlyContribution              *)
(* - monthlySpending * inflationMultiplier, so the contribution of a month *)
(* earns nothing in that month.                                            *)
(***************************************************************************)
\* the regime of the sorted list the month starting at age falls under
FirstSortedContaining(age) ==
    LET hits == {j \in DOMAIN sortedPeriods : Contains(sortedPeriods[j], age)}
    IN  IF hits = {} THEN None
        ELSE Some(sortedPeriods[CHOOSE j \in hits : \A h \in hits : j <= h])

C20_ReturnBeforeFlows ==
    [][MonthStep =>
        LET found == FirstSortedContaining(startAge + (month - 1))
            effective == IF found = None THEN annualReturn ELSE ReturnUnder(found[1])
            monthlyRate == (effective \div PercentBase) \div MonthsPerYear
            grown == balance * (1 + monthlyRate)
        IN  /\ found = None => balance' + TaxCharged = grown
            /\ found # None =>
                  /\ balance' + TaxCharged =
                         grown + found[1].monthlyContribution
                               - found[1].monthlySpending * inflationMultiplier'
                  /\ (found[1].monthlySpending = 0 /\ balance = 0) =>
                         balance' + TaxCharged = found[1].monthlyContribution
    ]_vars

\* the first month of a saver at a monthly return of 100 %: 1 has become
\* 1 * 2 + 1, not (1 + 1) * 2
C20_Witness ==
    /\ pc = "loop"
    /\ month = 2
    /\ annualReturn = MonthsPerYear * PercentBase
    /\ initialAmount = 1
    /\ FirstSortedContaining(startAge) # None
    /\ FirstSortedContaining(startAge)[1].monthlyContribution = 1
    /\ FirstSortedContaining(startAge)[1].annualReturn = None
    /\ balance = 3

(***************************************************************************)
(* C21: the inflation multiplier is advanced in every month, under a       *)
(* regime or not, and before it scales the month's spending: after month m *)
(* it is (1 + inflation/100)^(m/12), which is what the spending deducted   *)
(* in month m is multiplied by (one month of inflation for m = 1), and     *)
(* after 12k months it is (1 + inflation/100)^k.                           *)
(***************************************************************************)
\* (1 + inflation/100)^(m/12)
InflationAfterMonths(m) ==
    Pow(Root(1 + inflationRate \div PercentBase, MonthsPerYear), m)

C21_InflationAdvancesFirst ==
    [][MonthStep =>
        LET found == FirstSortedContaining(startAge + (month - 1))
        IN  /\ inflationMultiplier' = InflationAfterMonths(month)
            /\ month % MonthsPerYear = 0 =>
                   inflationMultiplier' = InflationAfterYears(month \div MonthsPerYear)
            /\ found # None =>
                   balance * (1 + (ReturnUnder(found[1]) \div PercentBase) \div MonthsPerYear)
                       + found[1].monthlyContribution - (balance' + TaxCharged)
                   = found[1].monthlySpending * InflationAfterMonths(month)
    ]_vars

\* a year of inflated spending, then a year under no regime: the multiplier
\* went on to (1 + inflation/100)^2, and the first year took 2 + 4 + ... + 2^12
C21_Witness ==
    /\ pc = "done"
    /\ inflationRate > 0
    /\ TaxOff
    /\ Len(periods) = 1
    /\ periods[1].monthlySpending = 1
    /\ periods[1].startAge = 0 /\ periods[1].endAge = MonthsPerYear
    /\ Len(yearlyBalances) = 3
    /\ yearlyBalances[2].balance = initialAmount - (Pow(2, MonthsPerYear + 1) - 2)
    /\ inflationMultiplier = InflationAfterYears(2)
    /\ inflationMultiplier > InflationAfterYears(1)

(***************************************************************************)
(* C22: with tax enabled, the step that completes a year computes the tax  *)
(* on the balance after that month's return, contribution and spending and *)
(* deducts it before the snapshot is built: the snapshot's balance is the  *)
(* post-tax balance, its growth is that balance less the contributions,    *)
(* its realBalance is that balance deflated, and its withdrawalRate is     *)
(* taken over that balance (0 when that balance is 0 or less).             *)
(***************************************************************************)
C22_SnapshotAfterTax ==
    [][(MonthStep /\ ~TaxOff /\ month % MonthsPerYear = 0) =>
        LET found == FirstSortedContaining(startAge + (month - 1))
            pre == IF found = None
                   THEN balance * (1 + (annualReturn \div PercentBase) \div MonthsPerYear)
                   ELSE balance
                            * (1 + (ReturnUnder(found[1]) \div PercentBase) \div MonthsPerYear)
                        + found[1].monthlyContribution
                        - found[1].monthlySpending * inflationMultiplier'
            post == pre - IskTaxOn(pre)
            snap == yearlyBalances'[Len(yearlyBalances')]
            years == month \div MonthsPerYear
            atSnap == FirstSortedContaining(snap.age)
        IN  /\ Len(yearlyBalances') = Len(yearlyBalances) + 1
            /\ balance' = post
            /\ snap.balance = post
            /\ snap.growth = post - totalContributions'
            /\ snap.realBalance = Quot(post, InflationAfterYears(years))
            /\ IF post > 0 /\ atSnap # None
               THEN /\ snap.withdrawalRate.den = post
                    /\ snap.withdrawalRate.num =
                           atSnap[1].monthlySpending * MonthsPerYear * InflationAfterYears(years)
               ELSE RateIsZero(snap.withdrawalRate)
    ]_vars

\* a taxed year end that left a positive balance under a spending regime,
\* with inflation
C22_Witness ==
    /\ ~TaxOff
    /\ inflationRate > 0
    /\ Len(yearlyBalances) >= 2
    /\ yearlyBalances[2].taxPaid # 0
    /\ yearlyBalances[2].balance > 0
    /\ yearlyBalances[2].withdrawalRate.num > 0
    /\ yearlyBalances[2].withdrawalRate.den = yearlyBalances[2].balance
    /\ yearlyBalances[2].growth = yearlyBalances[2].balance - yearlyBalances[2].contributions
    /\ yearlyBalances[2].realBalance.den > 1

(***************************************************************************)
(* C23: in a month whose starting age no regime contains, the step applies *)
(* the global return to the balance and nothing else of a regime (before   *)
(* any year-end tax), and leaves the contributions total as it is; after a *)
(* year of such months the new snapshot has the contributions of the       *)
(* snapshot before it.                                                     *)
(***************************************************************************)
\* no regime of the caller's list contains the starting age of month m
GapMonth(m) == \A p \in Range(periods) : ~Contains(p, MinStartAge(periods) + (m - 1))

C23_GapMonthCoasts ==
    [][(MonthStep /\ GapMonth(month)) =>
        /\ balance' + TaxCharged =
               balance * (1 + (annualReturn \div PercentBase) \div MonthsPerYear)
        /\ (TaxOff \/ month % MonthsPerYear # 0) =>
               balance' = balance * (1 + (annualReturn \div PercentBase) \div MonthsPerYear)
        /\ totalContributions' = totalContributions
        /\ (/\ month % MonthsPerYear = 0
            /\ \A m \in (month - MonthsPerYear + 1)..month : GapMonth(m)) =>
               yearlyBalances'[Len(yearlyBalances')].contributions = LastSnapshot.contributions
    ]_vars

\* a year of saving, then a year under no regime at a monthly return of 100 %
C23_Witness ==
    /\ pc = "done"
    /\ TaxOff
    /\ annualReturn > 0
    /\ Len(periods) = 1
    /\ periods[1].monthlyContribution = 1
    /\ Len(yearlyBalances) = 3
    /\ \A m \in (MonthsPerYear + 1)..(2 * MonthsPerYear) : GapMonth(m)
    /\ yearlyBalances[2].contributions = initialAmount + MonthsPerYear
    /\ yearlyBalances[3].contributions = yearlyBalances[2].contributions
    /\ yearlyBalances[2].balance > 0
    /\ yearlyBalances[3].balance = yearlyBalances[2].balance * Pow(2, MonthsPerYear)

(***************************************************************************)
(* C24 as stated: when regimes overlap at a month's starting age, the step *)
(* applies the one declared first in the caller's list among those         *)
(* containing the age, whatever the order of the list.                     *)
(***************************************************************************)
\* the places in the caller's list of the regimes containing age
ContainingAt(age) == {j \in DOMAIN periods : Contains(periods[j], age)}

\* the step being taken applies regime p: its contribution, spending and return
StepApplies(p) ==
    /\ totalContributions' = totalContributions + p.monthlyContribution
    /\ balance' + TaxCharged =
           balance * (1 + (ReturnUnder(p) \div PercentBase) \div MonthsPerYear)
           + p.monthlyContribution
           - p.monthlySpending * inflationMultiplier'

C24_FirstDeclaredWins ==
    [][MonthStep =>
        LET hits == ContainingAt(MinStartAge(periods) + (month - 1))
        IN  Cardinality(hits) >= 2 =>
                StepApplies(periods[CHOOSE j \in hits : \A h \in hits : j <= h])
    ]_vars

(***************************************************************************)
(* C24 amended: when regimes overlap at a month's starting age, the step   *)
(* applies the one with the smallest startAge among those containing the   *)
(* age, and the first declared of these when several share that startAge,  *)
(* whatever the order of the caller's list.                                *)
(***************************************************************************)
C24_EarliestStartWins ==
    [][MonthStep =>
        LET hits == ContainingAt(MinStartAge(periods) + (month - 1))
        IN  Cardinality(hits) >= 2 =>
                StepApplies(periods[CHOOSE j \in hits : \A h \in hits :
                                        \/ periods[j].startAge < periods[h].startAge
                                        \/ /\ periods[j].startAge = periods[h].startAge
                                           /\ j <= h])
    ]_vars

\* a saver declared first and an idle regime that starts earlier overlap in
\* the second year: the second year has contributed nothing
C24_Witness ==
    /\ pc = "done"
    /\ Len(periods) = 2
    /\ periods[1].startAge = MonthsPerYear /\ periods[1].endAge = 2 * MonthsPerYear
    /\ periods[2].startAge = 0 /\ periods[2].endAge = 2 * MonthsPerYear
    /\ periods[1].monthlyContribution = 1
    /\ periods[2].monthlyContribution = 0 /\ periods[2].monthlySpending = 0
    /\ Len(yearlyBalances) = 3
    /\ LastSnapshot.contributions = initialAmount

(***************************************************************************)
(* C25: once the first snapshot is pushed, the snapshot sequence only      *)
(* grows at its end: a monthly step leaves it unchanged when month % 12 is *)
(* not 0 and appends exactly one snapshot when it is, the return leaves it *)
(* unchanged, and every snapshot already pushed keeps all its fields.      *)
(***************************************************************************)
C25_SnapshotsAppendOnly ==
    [][Running =>
        /\ Len(yearlyBalances') >= Len(yearlyBalances)
        /\ SubSeq(yearlyBalances', 1, Len(yearlyBalances)) = yearlyBalances
        /\ Len(yearlyBalances') =
               IF MonthStep /\ month % MonthsPerYear = 0
               THEN Len(yearlyBalances) + 1
               ELSE Len(yearlyBalances)
    ]_vars

\* three different snapshots returned, the first still the one pushed first
C25_Witness ==
    /\ pc = "done"
    /\ Len(yearlyBalances) = 3
    /\ yearlyBalances[1] = [age |-> startAge, balance |-> initialAmount,
                            realBalance |-> [num |-> initialAmount, den |-> 1],
                            contributions |-> initialAmount, growth |-> 0,
                            withdrawalRate |-> yearlyBalances[1].withdrawalRate,
                            taxPaid |-> 0]
    /\ yearlyBalances[2].balance # initialAmount
    /\ yearlyBalances[3].balance # yearlyBalances[2].balance
    /\ balance = yearlyBalances[3].balance

(***************************************************************************)
(* C26: in every state the period editor reaches through addPeriod,        *)
(* removePeriod and updatePeriod, the list App passes to calculateGrowth   *)
(* is a contiguous, non-overlapping timeline: each regime ends where the   *)
(* next one starts, the last one ends at the horizon age 100, and no two   *)
(* regimes contain the same age.                                           *)
(***************************************************************************)
\* some age lies in both [p.startAge, p.endAge) and [q.startAge, q.endAge)
Overlap(p, q) == \E age \in 0..HorizonAge : Contains(p, age) /\ Contains(q, age)

C26_ContiguousTimeline ==
    pc = "editor" =>
        LET passed == PeriodsWithEndAges(editorPeriods)
        IN  /\ \A i \in 1..(Len(passed) - 1) : passed[i].endAge = passed[i + 1].startAge
            /\ passed # <<>> => passed[Len(passed)].endAge = HorizonAge
            /\ \A i, j \in DOMAIN passed : i < j => ~Overlap(passed[i], passed[j])

(***************************************************************************)
(* C27: in every state the period editor reaches from its two initial      *)
(* periods through addPeriod, removePeriod and updatePeriod, the periods   *)
(* list is not empty (removePeriod leaves a list of one period as it is),  *)
(* so the list App passes to calculateGrowth never meets the empty-list    *)
(* throw.                                                                  *)
(***************************************************************************)
C27_EditorNeverEmpty ==
    pc = "editor" =>
        /\ Len(editorPeriods) >= 1
        /\ Len(PeriodsWithEndAges(editorPeriods)) = Len(editorPeriods)
        /\ ~NoPeriods(SortByStartAge(PeriodsWithEndAges(editorPeriods)))

\* both initial periods have been removed: the one added after them is left
C27_Witness ==
    /\ pc = "editor"
    /\ Len(editorPeriods) = 1
    /\ editorPeriods[1].startAge = 65 + AddedPeriodOffset
    /\ editorPeriods[1].monthlySpending = 0
    /\ PeriodsWithEndAges(editorPeriods)[1].endAge = HorizonAge

(***************************************************************************)
(* C28 as stated: the final snapshot, when it is at the horizon age, has a *)
(* withdrawalRate of 0 whenever no regime's endAge exceeds the horizon     *)
(* age, even after a final year of spending; and this is so for every call *)
(* through calculateGrowthLegacy and for every render of App.              *)
(***************************************************************************)
\* the call has returned and its last snapshot is at the horizon age
FinalAtHorizon == pc = "done" /\ LastSnapshot.age = endAge

\* no regime passed to the call ends after the horizon age
NoRegimeBeyondHorizon == \A p \in Range(periods) : p.endAge <= endAge

C28_FinalRateZero ==
    (FinalAtHorizon /\ (legacy # None \/ editorPeriods # <<>> \/ NoRegimeBeyondHorizon))
    => RateIsZero(LastSnapshot.withdrawalRate)

(***************************************************************************)
(* C28 amended: the final snapshot, when it is at the horizon age, has a   *)
(* withdrawalRate of 0 whenever no regime's endAge exceeds the horizon     *)
(* age, even after a final year of spending; this is so for every call     *)
(* through calculateGrowthLegacy, and for a render of App whenever no      *)
(* period after the first has a startAge above 100.                        *)
(***************************************************************************)
C28_FinalRateZeroWithinHorizon ==
    /\ (FinalAtHorizon /\ (legacy # None \/ NoRegimeBeyondHorizon))
       => RateIsZero(LastSnapshot.withdrawalRate)
    /\ (editorPeriods # <<>> /\ pc # "editor"
        /\ \A i \in DOMAIN editorPeriods : i >= 2 => editorPeriods[i].startAge <= HorizonAge)
       => NoRegimeBeyondHorizon

\* App rendered on a single spending period over the last year before 100:
\* the rate is positive at 99 and 0 at 100, after twelve months of spending
C28_Witness ==
    /\ editorPeriods # <<>>
    /\ FinalAtHorizon
    /\ Len(yearlyBalances) = 2
    /\ yearlyBalances[1].withdrawalRate.num > 0
    /\ LastSnapshot.balance < AppInitialAmount
    /\ LastSnapshot.balance = AppInitialAmount - MonthsPerYear * periods[1].monthlySpending
    /\ RateIsZero(LastSnapshot.withdrawalRate)

(***************************************************************************)
(* C29: with inflationRate 0, no tax policy and no regime with a return    *)
(* override, the extended and the original engine, stepped side by side on *)
(* the same arguments, throw together or push snapshot sequences of the    *)
(* same length that agree on age, balance, contributions, growth and       *)
(* withdrawalRate at every snapshot.                                       *)
(***************************************************************************)
\* what the original engine's snapshots record, read off an extended snapshot
SharedFields(snap) ==
    [age |-> snap.age, balance |-> snap.balance, contributions |-> snap.contributions,
     growth |-> snap.growth, withdrawalRate |-> snap.withdrawalRate]

C29_EnginesAgree ==
    (orig.pc # "idle" /\ InStep) =>
        /\ Len(orig.yearlyBalances) = Len(yearlyBalances)
        /\ \A i \in DOMAIN yearlyBalances :
               orig.yearlyBalances[i] = SharedFields(yearlyBalances[i])

\* both engines have returned three snapshots after saving at a monthly
\* return of 100 % and then spending
C29_Witness ==
    /\ orig.pc = "done"
    /\ pc = "done"
    /\ annualReturn > 0
    /\ Len(orig.yearlyBalances) = 3
    /\ orig.yearlyBalances[2].withdrawalRate.num > 0
    /\ orig.yearlyBalances[2].balance > 0
    /\ orig.yearlyBalances[2].contributions > initialAmount
    /\ orig.yearlyBalances[3].growth # 0
    /\ orig.yearlyBalances[3].balance # orig.yearlyBalances[2].balance

(***************************************************************************)
(* C30 as stated: when two or more regimes have the same startAge and      *)
(* contain a month's starting age, the step applies the one of them        *)
(* declared first in the caller's list; and the simulation starts at the   *)
(* minimum startAge of the list, whatever its order.                       *)
(***************************************************************************)
C30_FirstDeclaredOfEqualStarts ==
    [][/\ Running' => /\ startAge' = MinStartAge(periods')
                      /\ yearlyBalances'[1].age = MinStartAge(periods')
       /\ MonthStep =>
             LET hits == ContainingAt(MinStartAge(periods) + (month - 1))
             IN  \A j \in hits :
                     LET same == {h \in hits : periods[h].startAge = periods[j].startAge}
                     IN  Cardinality(same) >= 2 =>
                             StepApplies(periods[CHOOSE f \in same : \A h \in same : f <= h])
    ]_vars

(***************************************************************************)
(* C30 amended: when the regimes that contain a month's starting age and   *)
(* earliest among those containing it are two or more with the same        *)
(* startAge, the step applies the one of them declared first in the        *)
(* caller's list; and the simulation starts at the minimum startAge of the *)
(* list, whatever its order.                                               *)
(***************************************************************************)
\* the places of the regimes that contain age and start earliest among these
EarliestAt(age) ==
    {j \in ContainingAt(age) :
        \A h \in ContainingAt(age) : periods[j].startAge <= periods[h].startAge}

C30_TieGoesToFirstDeclared ==
    [][/\ Running' => /\ startAge' = MinStartAge(periods')
                      /\ yearlyBalances'[1].age = MinStartAge(periods')
       /\ MonthStep =>
             LET tied == EarliestAt(MinStartAge(periods) + (month - 1))
             IN  Cardinality(tied) >= 2 =>
                     /\ \A j, h \in tied : periods[j].startAge = periods[h].startAge
                     /\ StepApplies(periods[CHOOSE j \in tied : \A h \in tied : j <= h])
    ]_vars

\* a saver declared before a spender over the same two years: every month saved
C30_Witness ==
    /\ pc = "done"
    /\ Len(periods) = 2
    /\ periods[1].startAge = periods[2].startAge
    /\ periods[1].endAge = 2 * MonthsPerYear
    /\ periods[2].endAge = 2 * MonthsPerYear
    /\ periods[1].monthlyContribution = 1
    /\ periods[2].monthlySpending = 1
    /\ TaxOff
    /\ annualReturn = 0
    /\ Len(yearlyBalances) = 3
    /\ LastSnapshot.contributions = initialAmount + 2 * MonthsPerYear
    /\ LastSnapshot.balance = LastSnapshot.contributions

====
